---- MODULE Spec2Model ----
(***************************************************************************)
(* A model of trestle-bot's entrypoint layer and YAML helpers:             *)
(*   trestlebot/entrypoints/entrypoint_base.py                             *)
(*       EntrypointBase.set_git_provider, set_reporter, run_base,          *)
(*       comma_sep_to_list, handle_exception                               *)
(*   trestlebot/utils.py                                                   *)
(*       populate_if_dict_field_not_exist, get_comments_from_yaml_data     *)
(*                                                                         *)
(* Python strings are sequences of one-character strings, an Optional[str] *)
(* is the empty set (None) or the singleton of the string, an ordered      *)
(* mapping is a sequence of <<key, value>> pairs with distinct keys.       *)
(*                                                                         *)
(* Four specifications share the module's variables:                       *)
(*   Spec          one run of an entrypoint: main -> run_base -> exit      *)
(*   SpecPopulate  repeated calls of populate_if_dict_field_not_exist      *)
(*   SpecComments  get_comments_from_yaml_data on a loaded document        *)
(*   SpecCommaSep  comma_sep_to_list on an input string                    *)
(* Each keeps the variables of the other three at their idle values.       *)
(***************************************************************************)
EXTENDS Integers, Sequences, FiniteSets, TLC

VARIABLES
    \* ---- one run of an entrypoint
    pc,             \* position of the run
    args,           \* the parsed argparse.Namespace (target_branch, with_token)
    env,            \* the CI platform the process environment shows
    stream,         \* the token stream: [reads, closed]
    factory_calls,  \* the arguments GitProviderFactory.provider_factory got, in order
    git_provider,   \* run_base's local git_provider
    results_reporter, \* run_base's local results_reporter
    bot_runs,       \* number of calls of TrestleBot.run
    wd_writes,      \* number of runs that wrote to the working directory
    report_calls,   \* number of calls of report_results
    exc,            \* the exception raised by the run, or None
    raised_at,      \* the step that raised it, or None
    exit_code,      \* the exit code the process ends with
    \* ---- populate_if_dict_field_not_exist
    data,           \* the CommentedMap
    field_name,
    default_value,
    calls,          \* calls made so far with (field_name, default_value)
    ret,            \* what the last call returned, or KeyError
    first,          \* [data, ret] as they were after the first call
    orig,           \* data as it was before the first call
    \* ---- get_comments_from_yaml_data
    yaml_data,      \* the loaded document: [ca, children]
    comments,       \* the returned list
    com_called,     \* whether get_comments_from_yaml_data has returned
    \* ---- comma_sep_to_list
    string,         \* the argument, an Optional[str]
    result,         \* the returned list
    csv_called      \* whether comma_sep_to_list has returned

runVars == <<pc, args, env, stream, factory_calls, git_provider, results_reporter,
             bot_runs, wd_writes, report_calls, exc, raised_at, exit_code>>
popVars == <<data, field_name, default_value, calls, ret, first, orig>>
comVars == <<yaml_data, comments, com_called>>
csvVars == <<string, result, csv_called>>
vars == <<runVars, popVars, comVars, csvVars>>

None == "None"

(***************************************************************************)
(* Bounds of the model.                                                    *)
(***************************************************************************)
MaxTokenLen == 2      \* longest token stream content
MaxDocLen == 2        \* most entries of a CommentedMap
MaxCalls == 2         \* calls of populate_if_dict_field_not_exist in a row
MaxKeys == 1          \* most commented keys of one YAML node
MaxGroup == 2         \* most entries of one comment group
SlotCount == 2        \* slots of one comment association
MaxChildren == 1      \* most nested nodes of a document
MaxStrLen == 4        \* longest argument of comma_sep_to_list

(***************************************************************************)
(* Python strings.                                                         *)
(***************************************************************************)
Whitespace == {" ", "\t"}

RECURSIVE SeqsUpTo(_, _)
\* all sequences over S of length at most n
SeqsUpTo(S, n) ==
    IF n = 0 THEN {<<>>}
    ELSE LET shorter == SeqsUpTo(S, n - 1)
         IN  shorter \cup {Append(s, c) : s \in {t \in shorter : Len(t) = n - 1}, c \in S}

RECURSIVE LStrip(_)
LStrip(s) == IF s # <<>> /\ Head(s) \in Whitespace THEN LStrip(Tail(s)) ELSE s

RECURSIVE RStrip(_)
RStrip(s) ==
    IF s # <<>> /\ s[Len(s)] \in Whitespace THEN RStrip(SubSeq(s, 1, Len(s) - 1)) ELSE s

\* str.strip()
Strip(s) == RStrip(LStrip(s))

RECURSIVE SplitFrom(_, _, _)
\* the segments of s, the segment being read is cur
SplitFrom(s, sep, cur) ==
    IF s = <<>> THEN <<cur>>
    ELSE IF Head(s) = sep THEN <<cur>> \o SplitFrom(Tail(s), sep, <<>>)
    ELSE SplitFrom(Tail(s), sep, Append(cur, Head(s)))

\* str.split(sep): always at least one segment ("".split(",") is [""])
Split(s, sep) == SplitFrom(s, sep, <<>>)

\* Optional[str]: None, and a string
NoneStr == {}
Some(s) == {s}
Value(o) == CHOOSE s \in o : TRUE

\* Python truthiness of an Optional[str]: neither None nor ""
Truthy(o) == o # NoneStr /\ o # Some(<<>>)

(***************************************************************************)
(* One run of an entrypoint.                                               *)
(***************************************************************************)
SUCCESS_EXIT_CODE == 0
ERROR_EXIT_CODE == 1
INVALID_ARGS_EXIT_CODE == 2

\* args.with_token after parse_args: None (--with-token given without a value,
\* nargs="?" and no const), sys.stdin (the flag not given: the default) or the
\* file argparse.FileType("r") opened
NoStream == [source |-> "None", content |-> <<>>]
TokenChars == {" ", "t"}
TokenContents == SeqsUpTo(TokenChars, MaxTokenLen)
Streams == [source : {"stdin", "file"}, content : TokenContents]

\* args.target_branch after parse_args: None (the flag not given), "" or a name
TargetBranches == {NoneStr, Some(<<>>), Some(<<"m">>)}

Namespaces == [target_branch : TargetBranches, with_token : Streams \cup {NoStream}]

\* the environment variables is_github_actions() and is_gitlab_ci() read
Environments == [github : BOOLEAN, gitlab : BOOLEAN]

NoException == [type |-> "None", arg |-> "None"]
EntrypointInvalidArgException(arg) == [type |-> "EntrypointInvalidArgException", arg |-> arg]
OtherException(type) == [type |-> type, arg |-> "None"]

\* what GitProviderFactory.provider_factory may do with a token: return a
\* provider, or raise ValueError or RuntimeError
FactoryOutcomes == {"GitProvider", "ValueError", "RuntimeError"}

\* set_git_provider testing `args.target_branch is not None` in place of its
\* truthiness: an empty --target-branch counts as set
set_git_provider_is_not_none(a, outcome) ==
    IF a.target_branch # NoneStr
    THEN IF a.with_token.source = "None"
         THEN [git_provider |-> None,
               exc |-> EntrypointInvalidArgException("--with-token"),
               reads |-> 0, factory_args |-> <<>>]
         ELSE [git_provider |-> outcome, exc |-> NoException,
               reads |-> 1, factory_args |-> <<Strip(a.with_token.content)>>]
    ELSE [git_provider |-> None, exc |-> NoException, reads |-> 0, factory_args |-> <<>>]

\* EntrypointBase.set_git_provider(args), the factory answering `outcome` if it
\* is called: the provider returned, the exception raised, the reads of the
\* token stream and the tokens handed to provider_factory
set_git_provider(a, outcome) ==
    IF Truthy(a.target_branch)
    THEN IF a.with_token.source = "None"
         THEN [git_provider |-> None,
               exc |-> EntrypointInvalidArgException("--with-token"),
               reads |-> 0, factory_args |-> <<>>]
         ELSE LET access_token == Strip(a.with_token.content)
              IN  CASE outcome = "ValueError" ->
                         [git_provider |-> None,
                          exc |-> EntrypointInvalidArgException("--server-url"),
                          reads |-> 1, factory_args |-> <<access_token>>]
                    [] outcome = "RuntimeError" ->
                         [git_provider |-> None,
                          exc |-> EntrypointInvalidArgException("--target-branch"),
                          reads |-> 1, factory_args |-> <<access_token>>]
                    [] OTHER ->
                         [git_provider |-> outcome,
                          exc |-> NoException,
                          reads |-> 1, factory_args |-> <<access_token>>]
    ELSE [git_provider |-> None, exc |-> NoException, reads |-> 0, factory_args |-> <<>>]

\* EntrypointBase.set_reporter()
set_reporter(e) ==
    IF e.github THEN "GitHubActionsResultsReporter"
    ELSE IF e.gitlab THEN "GitLabCIResultsReporter"
    ELSE "ResultsReporter"

\* handle_exception without its isinstance test
handle_exception_generic(exception) == ERROR_EXIT_CODE

\* handle_exception(exception): the exit code
handle_exception(exception) ==
    IF exception.type = "EntrypointInvalidArgException"
    THEN INVALID_ARGS_EXIT_CODE
    ELSE ERROR_EXIT_CODE

PopIdle ==
    /\ data = <<>> /\ field_name = "f" /\ default_value = None /\ calls = 0
    /\ ret = None /\ first = [data |-> <<>>, ret |-> None] /\ orig = <<>>
ComIdle ==
    /\ yaml_data = [ca |-> <<>>, children |-> <<>>] /\ comments = <<>>
    /\ com_called = FALSE
CsvIdle ==
    /\ string = NoneStr /\ result = <<>> /\ csv_called = FALSE
RunIdle ==
    /\ pc = "idle" /\ args = [target_branch |-> NoneStr, with_token |-> NoStream]
    /\ env = [github |-> FALSE, gitlab |-> FALSE]
    /\ stream = [reads |-> 0, closed |-> FALSE]
    /\ factory_calls = <<>> /\ git_provider = None /\ results_reporter = None
    /\ bot_runs = 0 /\ wd_writes = 0 /\ report_calls = 0
    /\ exc = NoException /\ raised_at = None /\ exit_code = SUCCESS_EXIT_CODE

\* the state as main() calls run_base(args, pre_tasks)
Init ==
    /\ pc = "set_git_provider"
    /\ args \in Namespaces
    /\ env \in Environments
    /\ stream = [reads |-> 0, closed |-> FALSE]
    /\ factory_calls = <<>>
    /\ git_provider = None
    /\ results_reporter = None
    /\ bot_runs = 0 /\ wd_writes = 0 /\ report_calls = 0
    /\ exc = NoException /\ raised_at = None
    /\ exit_code = SUCCESS_EXIT_CODE
    /\ PopIdle /\ ComIdle /\ CsvIdle

\* run_base, line 183: git_provider = self.set_git_provider(args)
SetGitProvider ==
    /\ pc = "set_git_provider"
    /\ \E outcome \in FactoryOutcomes :
         LET r == set_git_provider(args, outcome)
         IN  /\ git_provider' = r.git_provider
             /\ stream' = [stream EXCEPT !.reads = @ + r.reads]
             /\ factory_calls' = factory_calls \o r.factory_args
             /\ IF r.exc = NoException
                THEN /\ pc' = "set_reporter"
                     /\ UNCHANGED <<exc, raised_at>>
                ELSE /\ pc' = "raised"
                     /\ exc' = r.exc
                     /\ raised_at' = "set_git_provider"
    /\ UNCHANGED <<args, env, results_reporter, bot_runs, wd_writes, report_calls,
                   exit_code, popVars, comVars, csvVars>>

\* run_base, line 184: results_reporter = self.set_reporter()
SetReporter ==
    /\ pc = "set_reporter"
    /\ results_reporter' = set_reporter(env)
    /\ pc' = "bot_run"
    /\ UNCHANGED <<args, env, stream, factory_calls, git_provider, bot_runs, wd_writes,
                   report_calls, exc, raised_at, exit_code, popVars, comVars, csvVars>>

\* run_base, lines 187-203: TrestleBot(...).run(...) returns BotResults, having
\* written to the working directory or not, or raises
BotRun ==
    /\ pc = "bot_run"
    /\ bot_runs' = bot_runs + 1
    /\ \E wrote \in BOOLEAN, raises \in BOOLEAN :
         /\ wd_writes' = wd_writes + (IF wrote THEN 1 ELSE 0)
         /\ IF raises
            THEN /\ pc' = "raised"
                 /\ exc' = OtherException("RepoException")
                 /\ raised_at' = "bot_run"
            ELSE /\ pc' = "report_results"
                 /\ UNCHANGED <<exc, raised_at>>
    /\ UNCHANGED <<args, env, stream, factory_calls, git_provider, results_reporter,
                   report_calls, exit_code, popVars, comVars, csvVars>>

\* run_base, line 206: results_reporter.report_results(results) returns or raises
ReportResults ==
    /\ pc = "report_results"
    /\ report_calls' = report_calls + 1
    /\ \E raises \in BOOLEAN :
         IF raises
         THEN /\ pc' = "raised"
              /\ exc' = OtherException("OSError")
              /\ raised_at' = "report_results"
         ELSE /\ pc' = "returned"
              /\ UNCHANGED <<exc, raised_at>>
    /\ UNCHANGED <<args, env, stream, factory_calls, git_provider, results_reporter,
                   bot_runs, wd_writes, exit_code, popVars, comVars, csvVars>>

\* main(): run_base returned, the process ends with the success code
ExitSuccess ==
    /\ pc = "returned"
    /\ exit_code' = SUCCESS_EXIT_CODE
    /\ pc' = "exit"
    /\ UNCHANGED <<args, env, stream, factory_calls, git_provider, results_reporter,
                   bot_runs, wd_writes, report_calls, exc, raised_at,
                   popVars, comVars, csvVars>>

\* main(): run_base raised, sys.exit(handle_exception(e))
ExitFailure ==
    /\ pc = "raised"
    /\ exit_code' = handle_exception(exc)
    /\ pc' = "exit"
    /\ UNCHANGED <<args, env, stream, factory_calls, git_provider, results_reporter,
                   bot_runs, wd_writes, report_calls, exc, raised_at,
                   popVars, comVars, csvVars>>

Next ==
    \/ SetGitProvider
    \/ SetReporter
    \/ BotRun
    \/ ReportResults
    \/ ExitSuccess
    \/ ExitFailure

Spec == Init /\ [][Next]_vars

(***************************************************************************)
(* populate_if_dict_field_not_exist on a ruamel.yaml CommentedMap.         *)
(***************************************************************************)
FieldNames == {"a", "b", "f"}
FieldValues == {None, "v", "w"}

\* the CommentedMaps of at most n entries: sequences of <<key, value>> with
\* distinct keys
Documents(n) ==
    {d \in SeqsUpTo(FieldNames \X FieldValues, n) :
        \A i, j \in DOMAIN d : d[i][1] = d[j][1] => i = j}

\* key in data
Contains(d, key) == \E i \in DOMAIN d : d[i][1] = key

\* data[key], KeyError when the key is missing
getitem(d, key) ==
    IF Contains(d, key) THEN d[CHOOSE i \in DOMAIN d : d[i][1] = key][2] ELSE "KeyError"

\* data.get(key): None when the key is missing
get(d, key) == IF Contains(d, key) THEN getitem(d, key) ELSE None

\* data[key] = value: an existing key keeps its position, a new one goes last
setitem(d, key, value) ==
    IF Contains(d, key)
    THEN [i \in DOMAIN d |-> IF d[i][1] = key THEN <<key, value>> ELSE d[i]]
    ELSE Append(d, <<key, value>>)

\* del data[key]
delitem(d, key) == SelectSeq(d, LAMBDA e : e[1] # key)

RECURSIVE Reinsert(_, _, _, _, _, _)
\* the loop of ordereddict.insert: the entries od[index..] are put back into
\* self, the new key going in when index reaches pos (index counts from 0)
Reinsert(self, od, pos, key, value, index) ==
    IF index >= Len(od) THEN self
    ELSE LET withNew == IF pos = index THEN setitem(self, key, value) ELSE self
             old == od[index + 1]
         IN  Reinsert(setitem(withNew, old[1], old[2]), od, pos, key, value, index + 1)

\* ruamel.yaml's ordereddict.insert(pos, key, value)
ordereddict_insert(d, pos, key, value) ==
    IF pos >= Len(d) THEN setitem(d, key, value)
    ELSE Reinsert(<<>>, d, pos, key, value, 0)

\* ruamel.yaml's CommentedMap.insert(pos, key, value): an existing key is
\* deleted first.  (The map's own-key set _ok is the map's keys here; after an
\* insert that put nothing in, _ok holds the key and the next insert raises
\* KeyError from its del, which the caller sees as the KeyError of getitem.)
CommentedMap_insert(d, pos, key, value) ==
    ordereddict_insert(IF Contains(d, key) THEN delitem(d, key) ELSE d, pos, key, value)

\* populate_if_dict_field_not_exist(data, field_name, default_value): the map
\* after the call and what the call returns (KeyError when data[field_name]
\* raises it)
populate_if_dict_field_not_exist(d, name, default) ==
    LET after == IF get(d, name) = None
                 THEN CommentedMap_insert(d, Len(d) - 1, name, default)
                 ELSE d
    IN  [data |-> after, ret |-> getitem(after, name)]

InitPopulate ==
    /\ data \in Documents(MaxDocLen)
    /\ orig = data
    /\ field_name \in FieldNames
    /\ default_value \in FieldValues
    /\ calls = 0
    /\ ret = None
    /\ first = [data |-> <<>>, ret |-> None]
    /\ RunIdle /\ ComIdle /\ CsvIdle

\* one call with the same field_name and default_value
Populate ==
    /\ calls < MaxCalls
    /\ LET r == populate_if_dict_field_not_exist(data, field_name, default_value)
       IN  /\ data' = r.data
           /\ ret' = r.ret
           /\ first' = IF calls = 0 THEN r ELSE first
    /\ calls' = calls + 1
    /\ UNCHANGED <<field_name, default_value, orig, runVars, comVars, csvVars>>

NextPopulate == Populate

SpecPopulate == InitPopulate /\ [][NextPopulate]_vars

(***************************************************************************)
(* get_comments_from_yaml_data on a document loaded by ruamel.yaml.        *)
(*                                                                         *)
(* A node is [ca, children]: ca is the node's ca.items in iteration order, *)
(* one comment association (a list of slots) per commented key; children   *)
(* are the nodes nested in it, each with a ca of its own.  A slot is None, *)
(* a CommentToken or a list (a comment group) whose entries are            *)
(* CommentTokens or None.                                                  *)
(***************************************************************************)
CommentValues == {"#x", "#y"}
NoneSlot == [kind |-> "None", value |-> "", list |-> <<>>]
CommentToken(v) == [kind |-> "CommentToken", value |-> v, list |-> <<>>]
CommentGroup(l) == [kind |-> "list", value |-> "", list |-> l]

\* the entries of a comment group: None or a CommentToken
GroupEntries == {NoneSlot, CommentToken("#x")}
Slots ==
    {NoneSlot}
        \cup {CommentToken(v) : v \in CommentValues}
        \cup {CommentGroup(l) : l \in SeqsUpTo(GroupEntries, MaxGroup)}
CommentInfos == {c \in SeqsUpTo(Slots, SlotCount) : Len(c) = SlotCount}
CommentAttribs == SeqsUpTo(CommentInfos, MaxKeys)
LeafNodes == [ca : CommentAttribs, children : {<<>>}]
YamlDocuments == [ca : CommentAttribs, children : SeqsUpTo(LeafNodes, MaxChildren)]

\* `not comment`: None and the empty list are falsy, a CommentToken is not
Falsy(slot) == slot.kind = "None" \/ (slot.kind = "list" /\ slot.list = <<>>)

RECURSIVE GroupComments(_)
\* lines 41-43: the values of the CommentTokens of a comment group
GroupComments(l) ==
    IF l = <<>> THEN <<>>
    ELSE (IF Head(l).kind = "CommentToken" THEN <<Head(l).value>> ELSE <<>>)
             \o GroupComments(Tail(l))

\* lines 37-45: what one slot of a comment association appends
SlotComments(slot) ==
    IF Falsy(slot) THEN <<>>
    ELSE IF slot.kind = "list" THEN GroupComments(slot.list)
    ELSE IF slot.kind = "CommentToken" THEN <<slot.value>>
    ELSE <<>>

RECURSIVE InfoComments(_)
\* line 36: the loop over one comment association
InfoComments(comment_info) ==
    IF comment_info = <<>> THEN <<>>
    ELSE SlotComments(Head(comment_info)) \o InfoComments(Tail(comment_info))

RECURSIVE ItemsComments(_)
\* line 35: the loop over yaml_data.ca.items
ItemsComments(items) ==
    IF items = <<>> THEN <<>>
    ELSE InfoComments(Head(items)) \o ItemsComments(Tail(items))

\* get_comments_from_yaml_data(yaml_data)
get_comments_from_yaml_data(yd) ==
    IF yd.ca = <<>> THEN <<>> ELSE ItemsComments(yd.ca)

InitComments ==
    /\ yaml_data \in YamlDocuments
    /\ comments = <<>>
    /\ com_called = FALSE
    /\ RunIdle /\ PopIdle /\ CsvIdle

GetComments ==
    /\ ~com_called
    /\ comments' = get_comments_from_yaml_data(yaml_data)
    /\ com_called' = TRUE
    /\ UNCHANGED <<yaml_data, runVars, popVars, csvVars>>

NextComments == GetComments

SpecComments == InitComments /\ [][NextComments]_vars

(***************************************************************************)
(* comma_sep_to_list.                                                      *)
(***************************************************************************)
CsvChars == {"a", " ", ","}

\* " a, b ,c"
ExampleString == <<" ", "a", ",", " ", "b", " ", ",", "c">>

\* the arguments: None, every string over CsvChars up to MaxStrLen, the example
CsvArguments ==
    {NoneStr} \cup {Some(s) : s \in SeqsUpTo(CsvChars, MaxStrLen) \cup {ExampleString}}

\* comma_sep_to_list keeping the segments as split, without map(str.strip, ...)
comma_sep_to_list_unstripped(o) ==
    LET stripped == IF Truthy(o) THEN Strip(Value(o)) ELSE <<>>
    IN  IF stripped # <<>> THEN Split(stripped, ",") ELSE <<>>

\* comma_sep_to_list(string)
comma_sep_to_list(o) ==
    LET stripped == IF Truthy(o) THEN Strip(Value(o)) ELSE <<>>
        segments == Split(stripped, ",")
    IN  IF stripped # <<>>
        THEN [i \in DOMAIN segments |-> Strip(segments[i])]
        ELSE <<>>

InitCommaSep ==
    /\ string \in CsvArguments
    /\ result = <<>>
    /\ csv_called = FALSE
    /\ RunIdle /\ PopIdle /\ ComIdle

CommaSepToList ==
    /\ ~csv_called
    /\ result' = comma_sep_to_list(string)
    /\ csv_called' = TRUE
    /\ UNCHANGED <<string, runVars, popVars, comVars>>

NextCommaSep == CommaSepToList

SpecCommaSep == InitCommaSep /\ [][NextCommaSep]_vars

(***************************************************************************)
(* Properties of a run (specification Spec).                               *)
(***************************************************************************)
Resolved == pc # "set_git_provider"
TokenMissing == args.with_token.source = "None"
TokenEmpty == args.with_token.source # "None" /\ Strip(args.with_token.content) = <<>>

\* C1: when target_branch is set and the token is missing (with_token is None)
\* or empty (the stream reads as an empty or whitespace-only string),
\* set_git_provider raises EntrypointInvalidArgException naming --with-token
\* and GitProviderFactory.provider_factory is never called.
C1_MissingOrEmptyTokenRejected ==
    (Resolved /\ Truthy(args.target_branch) /\ (TokenMissing \/ TokenEmpty))
        => /\ raised_at = "set_git_provider"
           /\ exc = EntrypointInvalidArgException("--with-token")
           /\ factory_calls = <<>>

\* C2: when target_branch is unset (None or empty), set_git_provider returns
\* None and raises nothing, whatever with_token is.
C2_UnsetTargetBranchGivesNone ==
    (Resolved /\ ~Truthy(args.target_branch))
        => /\ git_provider = None
           /\ raised_at # "set_git_provider"
           /\ factory_calls = <<>>

\* C2 witness: target_branch is unset, the stream holds a token, and
\* set_git_provider has returned.
C2_Witness ==
    /\ pc = "set_reporter"
    /\ ~Truthy(args.target_branch)
    /\ args.with_token.source = "file"
    /\ Strip(args.with_token.content) # <<>>

\* C3: a run with target_branch set and no token (no --with-token value,
\* nothing piped on stdin) ends with the invalid-argument exit code and without
\* the bot having run, the working directory written or the reporter called;
\* and the bot runs only after provider resolution succeeded.
C3_NoTokenFailsBeforeSideEffects ==
    /\ (/\ Truthy(args.target_branch)
        /\ \/ TokenMissing
           \/ args.with_token = [source |-> "stdin", content |-> <<>>]
        /\ Resolved)
           => /\ bot_runs = 0 /\ wd_writes = 0 /\ report_calls = 0
              /\ pc = "exit" => exit_code = INVALID_ARGS_EXIT_CODE
    /\ bot_runs > 0 => raised_at # "set_git_provider"

\* the exceptions handle_exception may be handed
Exceptions ==
    {EntrypointInvalidArgException(a) : a \in {"--with-token", "--server-url", "--target-branch"}}
        \cup {OtherException(t) : t \in {"RepoException", "OSError", "ValueError",
                                         "RuntimeError", "KeyError", "Exception"}}

\* C4: handle_exception returns the invalid-argument exit code exactly for an
\* EntrypointInvalidArgException and the generic error exit code for every
\* other exception; both codes are non-zero and differ; a run exits with zero
\* only if it raised nothing.
C4_ExitCodeMapping ==
    /\ \A e \in Exceptions :
         /\ handle_exception(e) = INVALID_ARGS_EXIT_CODE
                <=> e.type = "EntrypointInvalidArgException"
         /\ e.type # "EntrypointInvalidArgException"
                => handle_exception(e) = ERROR_EXIT_CODE
    /\ INVALID_ARGS_EXIT_CODE # SUCCESS_EXIT_CODE
    /\ ERROR_EXIT_CODE # SUCCESS_EXIT_CODE
    /\ INVALID_ARGS_EXIT_CODE # ERROR_EXIT_CODE
    /\ pc = "exit" =>
         CASE exc = NoException -> exit_code = SUCCESS_EXIT_CODE
           [] exc.type = "EntrypointInvalidArgException" -> exit_code = INVALID_ARGS_EXIT_CODE
           [] OTHER -> exit_code = ERROR_EXIT_CODE

\* C4 witness: a run that raised EntrypointInvalidArgException has exited with
\* the invalid-argument code.
C4_Witness ==
    /\ pc = "exit"
    /\ exc.type = "EntrypointInvalidArgException"
    /\ exit_code = INVALID_ARGS_EXIT_CODE

\* C5: a failure raised by report_results after a successful bot run does not
\* propagate out of run_base and the run still exits with the success code.
C5_ReporterFailureSwallowed ==
    raised_at = "report_results"
        => /\ pc # "raised"
           /\ pc = "exit" => exit_code = SUCCESS_EXIT_CODE

\* C10: the token stream is read at most once, and when the run ends the
\* stream has been closed.
C10_StreamReadOnceAndClosed ==
    /\ stream.reads <= 1
    /\ (pc = "exit" /\ args.with_token.source # "None") => stream.closed

(***************************************************************************)
(* Properties of populate_if_dict_field_not_exist (SpecPopulate).          *)
(***************************************************************************)
\* C6: a second call with the same arguments leaves the document (keys, order,
\* values) as it was after the first call and returns what the first returned.
C6_PopulateIdempotent ==
    calls >= 2 => data = first.data /\ ret = first.ret

\* the document `d` with <<name, default>> put immediately before its last
\* entry (alone, when d is empty)
InsertedBeforeLast(d, name, default) ==
    [i \in 1..(Len(d) + 1) |->
        IF Len(d) = 0 THEN <<name, default>>
        ELSE IF i < Len(d) THEN d[i]
        ELSE IF i = Len(d) THEN <<name, default>>
        ELSE d[Len(d)]]

\* C7: for a field absent from the document, the call inserts it with the
\* default immediately before the previous last entry, the other entries
\* keeping order and values, for documents of every size (empty ones too);
\* and every call returns the value stored under the field after it.
C7_InsertBeforeLastAndReturn ==
    calls >= 1 =>
        /\ ~Contains(orig, field_name)
              => first.data = InsertedBeforeLast(orig, field_name, default_value)
        /\ Contains(data, field_name)
        /\ ret = getitem(data, field_name)

(***************************************************************************)
(* Properties of get_comments_from_yaml_data (SpecComments).               *)
(***************************************************************************)
\* the CommentTokens a slot carries, singly or in a group
SlotTokens(slot) ==
    IF slot.kind = "CommentToken" THEN 1
    ELSE Cardinality({i \in DOMAIN slot.list : slot.list[i].kind = "CommentToken"})

RECURSIVE SumOver(_, _, _)
\* the sum of Op(s[i]) for i in from..Len(s)
SumOver(Op(_), s, from) ==
    IF from > Len(s) THEN 0 ELSE Op(s[from]) + SumOver(Op, s, from + 1)

InfoTokens(comment_info) == SumOver(SlotTokens, comment_info, 1)
AttribTokens(ca) == SumOver(InfoTokens, ca, 1)
LeafTokens(node) == AttribTokens(node.ca)

\* the CommentTokens of a document, those of its nested nodes included
DocumentTokens(yd) == AttribTokens(yd.ca) + SumOver(LeafTokens, yd.children, 1)

\* C8: a document without comments gives the empty list, and a document whose
\* nodes, at any nesting depth, carry N comment tokens (single or grouped)
\* gives exactly N entries.
C8_AllCommentsReturned ==
    com_called =>
        /\ DocumentTokens(yaml_data) = 0 => comments = <<>>
        /\ Len(comments) = DocumentTokens(yaml_data)

(***************************************************************************)
(* Properties of comma_sep_to_list (SpecCommaSep).                         *)
(***************************************************************************)
\* the positions that delimit the segments of s: its commas and both ends
Delimiters(s) == {i \in DOMAIN s : s[i] = ","} \cup {0, Len(s) + 1}

\* the k-th delimiter of s, from the left
Delimiter(s, k) ==
    CHOOSE p \in Delimiters(s) : Cardinality({q \in Delimiters(s) : q < p}) = k - 1

\* the k-th comma-delimited segment of s
Segment(s, k) == SubSeq(s, Delimiter(s, k) + 1, Delimiter(s, k + 1) - 1)

\* t without its leading and trailing whitespace
Trimmed(t) ==
    LET inked == {i \in DOMAIN t : t[i] \notin Whitespace}
    IN  IF inked = {} THEN <<>>
        ELSE SubSeq(t, CHOOSE i \in inked : \A j \in inked : i <= j,
                       CHOOSE i \in inked : \A j \in inked : i >= j)

\* C9: comma_sep_to_list gives the empty list for None, "" and whitespace-only
\* strings; otherwise the comma-delimited segments of the string in order,
\* each without leading and trailing whitespace: commas + 1 elements, none
\* starting or ending with whitespace (" a, b ,c" gives ["a", "b", "c"]).
C9_CommaSepToList ==
    csv_called =>
        LET s == IF string = NoneStr THEN <<>> ELSE Value(string)
            commas == Cardinality({i \in DOMAIN s : s[i] = ","})
        IN  /\ IF \A i \in DOMAIN s : s[i] \in Whitespace
               THEN result = <<>>
               ELSE /\ Len(result) = commas + 1
                    /\ \A k \in DOMAIN result :
                         /\ result[k] = Trimmed(Segment(s, k))
                         /\ result[k] # <<>> =>
                              /\ Head(result[k]) \notin Whitespace
                              /\ result[k][Len(result[k])] \notin Whitespace
            /\ s = ExampleString => result = << <<"a">>, <<"b">>, <<"c">> >>

\* C9 witness: the example string has been converted.
C9_Witness ==
    /\ csv_called
    /\ string = Some(ExampleString)
    /\ result = << <<"a">>, <<"b">>, <<"c">> >>

====
